---- MODULE Spec2Model ----
(***************************************************************************)
(* The coding-exam session (CodingExamInterface.tsx) and the remote        *)
(* grading flow (execute-code-flow.ts) as state machines.                  *)
(*                                                                         *)
(*   Spec         the exam session: the reducer driven by the rendered UI, *)
(*                the timer, the proctoring monitor, Run and submit.       *)
(*   FairSpec     Spec with weak fairness on the steps the program itself  *)
(*                takes (timers, effects, awaited continuations).          *)
(*   SpecWrite    Spec against a store that fails the final write.         *)
(*   SpecReducer  examReducer alone, fed every event with every payload.   *)
(*   SpecNav      examReducer fed the events the rendered UI can dispatch. *)
(*   SpecAnswer   the UI's events on exams of 1..MaxQuestions questions.   *)
(*   SpecGrade    one call of executeCodeFlow against the sandbox.         *)
(*   SpecScore    the score handleSubmitExam computes from the marks.      *)
(*   SpecStore    the studentExams collection under the writes of          *)
(*                handleSubmitExam for several students and exams.         *)
(*   SpecSubmit   the submit loop on sessions with answers already typed.  *)
(*   SpecRun      Run on sessions with answers already typed.              *)
(*   FairSpecRun  SpecRun with every awaited executeCode call settling.    *)
(*   SpecEnd      the ways out of a started session, in exams with and     *)
(*                without a minimumTime.                                   *)
(***************************************************************************)
EXTENDS Integers, Sequences, FiniteSets, TLC

VARIABLES
    state,          \* useReducer(examReducer, ...): the session State
    dispatched,     \* the reducer actions the last step dispatched, in order
    isSubmitting,   \* useState(false)
    calls,          \* handleSubmitExam invocations waiting on executeCode
    runs,           \* handleRunCode invocations waiting on executeCode
    log,            \* history: what the handlers were asked and did
    exam,           \* examData and shuffledQuestions, fixed once loaded
    monitor,        \* useFullscreenEnforcement: the proctoring monitor
    grade           \* one executeCodeFlow call, with the history of its requests

vars == <<state, dispatched, isSubmitting, calls, runs, log, exam, monitor, grade>>

----------------------------------------------------------------------------
(* Bounds *)

MaxQuestions == 2        \* questions of an exam in Spec
ReducerQuestions == 3    \* questions of the exam in SpecReducer
MaxDuration == 2         \* examData.duration * 60, in seconds
MaxExitCount == 1        \* secure -> insecure transitions that are followed
MaxUserEvents == 2       \* navigation, editing and Run clicks that are followed
MaxTestCases == 3        \* test cases of a question in SpecGrade
MaxAnswers == 4          \* answers of a submission in SpecScore
MaxWriteFailures == 1    \* writes that a failing store fails
MaxSubmits == 3          \* SubmissionRecord writes in SpecStore
MaxRunEvents == 4        \* Run clicks and navigation that are followed in SpecRun
CountdownSeconds == 2    \* length of the proctoring countdown

----------------------------------------------------------------------------
(* JavaScript values *)

Undefined == "undefined"
Null == "null"

Min(a, b) == IF a < b THEN a ELSE b
Max(a, b) == IF a > b THEN a ELSE b

\* A Map whose iteration order is observed (statuses): a sequence of entries in
\* insertion order.
MapHas(m, k) == \E i \in 1..Len(m) : m[i].key = k

MapGet(m, k) ==
    IF MapHas(m, k) THEN m[CHOOSE i \in 1..Len(m) : m[i].key = k].val
    ELSE Undefined

\* A variant that re-inserts the key: m.delete(k); m.set(k, v), which moves an
\* existing key to the end of the insertion order
MapSetReinserted(m, k, v) ==
    LET kept == {i \in 1..Len(m) : m[i].key # k}
        rank(i) == Cardinality({j \in kept : j <= i})
        rest == [r \in 1..Cardinality(kept) |-> m[CHOOSE i \in kept : rank(i) = r]]
    IN  Append(rest, [key |-> k, val |-> v])

\* m.set(k, v): an existing key keeps its place in the insertion order
MapSet(m, k, v) ==
    IF MapHas(m, k)
    THEN [i \in 1..Len(m) |-> IF m[i].key = k THEN [key |-> k, val |-> v] ELSE m[i]]
    ELSE Append(m, [key |-> k, val |-> v])

\* Array.from(m.keys())[i]
KeyAt(m, i) == IF i \in 0..(Len(m) - 1) THEN m[i + 1].key ELSE Undefined

\* A Map that is only read by key (answers, executionResults, isExecuting): a
\* function with Undefined for an absent key.
QuestionIds == <<"q1", "q2", "q3", "q4", "q5">>
AllIds == {QuestionIds[i] : i \in 1..Len(QuestionIds)}
EmptyMap == [q \in AllIds |-> Undefined]
\* Per question, the results of its runs in the order in which they returned
NoneResolved == [q \in AllIds |-> <<>>]
KeyedSet(m, k, v) == IF k \in AllIds THEN [m EXCEPT ![k] = v] ELSE m
KeyedGet(m, k) == IF k \in AllIds THEN m[k] ELSE Undefined

\* The source codes an editor change can carry: value || ''
SourceCodes == {"", "code"}

----------------------------------------------------------------------------
(* examReducer *)

\* useMemo initialState, for an exam of n questions and duration*60 = seconds
initialState(n, seconds) ==
    [ currentQuestionIndex |-> 0,
      answers |-> EmptyMap,
      statuses |-> [i \in 1..n |-> [key |-> QuestionIds[i], val |-> "not-visited"]],
      executionResults |-> EmptyMap,
      isExecuting |-> EmptyMap,
      timeLeft |-> seconds,
      examStarted |-> FALSE,
      examFinished |-> FALSE,
      totalQuestions |-> n ]

\* if (newStatuses.get(id) === 'not-visited') newStatuses.set(id, 'not-answered')
Visit(statuses, questionId) ==
    IF MapGet(statuses, questionId) = "not-visited"
    THEN MapSet(statuses, questionId, "not-answered")
    ELSE statuses

INITIALIZE(s, payload) == payload

START_EXAM(s) ==
    IF Len(s.statuses) = 0 THEN [s EXCEPT !.examStarted = TRUE]
    ELSE [s EXCEPT !.examStarted = TRUE,
                   !.statuses = Visit(s.statuses, KeyAt(s.statuses, 0))]

NEXT_QUESTION(s) ==
    LET nextIndex == Min(s.currentQuestionIndex + 1, s.totalQuestions - 1)
    IN  [s EXCEPT !.currentQuestionIndex = nextIndex,
                  !.statuses = Visit(s.statuses, KeyAt(s.statuses, nextIndex))]

PREV_QUESTION(s) ==
    [s EXCEPT !.currentQuestionIndex = Max(s.currentQuestionIndex - 1, 0)]

JUMP_TO_QUESTION(s, payload) ==
    [s EXCEPT !.currentQuestionIndex = payload,
              !.statuses = Visit(s.statuses, KeyAt(s.statuses, payload))]

\* A variant without the marked-for-review test: the status always becomes
\* 'answered'
ANSWER_AlwaysAnswered(s, payload) ==
    [s EXCEPT !.answers = KeyedSet(s.answers, payload.questionId, payload.sourceCode),
              !.statuses = MapSet(s.statuses, payload.questionId, "answered")]

ANSWER(s, payload) ==
    [s EXCEPT !.answers = KeyedSet(s.answers, payload.questionId, payload.sourceCode),
              !.statuses = IF MapGet(s.statuses, payload.questionId) # "marked-for-review"
                           THEN MapSet(s.statuses, payload.questionId, "answered")
                           ELSE s.statuses]

\* A variant that clears the answer and leaves the status as it is
CLEAR_ANSWER_KeepsStatus(s, payload) ==
    [s EXCEPT !.answers = KeyedSet(s.answers, payload, Null)]

CLEAR_ANSWER(s, payload) ==
    [s EXCEPT !.answers = KeyedSet(s.answers, payload, Null),
              !.statuses = IF MapGet(s.statuses, payload) # "marked-for-review"
                           THEN MapSet(s.statuses, payload, "not-answered")
                           ELSE s.statuses]

\* A variant that tests the answer for truthiness: state.answers.get(id) ? ...
HasAnswerTruthy(s, questionId) ==
    KeyedGet(s.answers, questionId) \notin {Null, Undefined, ""}

\* state.answers.get(id) != null  (loose: neither null nor undefined)
HasAnswer(s, questionId) ==
    KeyedGet(s.answers, questionId) \notin {Null, Undefined}

TOGGLE_MARK_FOR_REVIEW(s, payload) ==
    [s EXCEPT !.statuses =
        IF MapGet(s.statuses, payload) = "marked-for-review"
        THEN MapSet(s.statuses, payload,
                    IF HasAnswer(s, payload) THEN "answered" ELSE "not-answered")
        ELSE MapSet(s.statuses, payload, "marked-for-review")]

\* A variant that finishes one tick late: if (state.timeLeft <= 0)
TICK_TIMER_LateFinish(s) ==
    IF s.timeLeft <= 0
    THEN [s EXCEPT !.timeLeft = 0, !.examFinished = TRUE]
    ELSE [s EXCEPT !.timeLeft = s.timeLeft - 1]

\* A variant whose running branch returns the state as it is: the timer stalls
TICK_TIMER_Stalled(s) ==
    IF s.timeLeft <= 1
    THEN [s EXCEPT !.timeLeft = 0, !.examFinished = TRUE]
    ELSE s

TICK_TIMER(s) ==
    IF s.timeLeft <= 1
    THEN [s EXCEPT !.timeLeft = 0, !.examFinished = TRUE]
    ELSE [s EXCEPT !.timeLeft = s.timeLeft - 1]

\* A variant that leaves the clock alone: { ...state, examFinished: true }
FINISH_EXAM_KeepsTime(s) == [s EXCEPT !.examFinished = TRUE]

FINISH_EXAM(s) == [s EXCEPT !.examFinished = TRUE, !.timeLeft = 0]

SET_EXECUTING(s, payload) ==
    [s EXCEPT !.isExecuting =
        KeyedSet(s.isExecuting, payload.questionId, payload.isExecuting)]

\* A variant that copies the wrong Map: new Map(state.answers), and returns it
\* as answers
SET_EXECUTION_RESULT_IntoAnswers(s, payload) ==
    [s EXCEPT !.answers = KeyedSet(s.answers, payload.questionId, payload.result)]

\* A variant that keeps a result that is already stored: first write wins
SET_EXECUTION_RESULT_KeepFirst(s, payload) ==
    IF KeyedGet(s.executionResults, payload.questionId) # Undefined THEN s
    ELSE [s EXCEPT !.executionResults =
            KeyedSet(s.executionResults, payload.questionId, payload.result)]

SET_EXECUTION_RESULT(s, payload) ==
    [s EXCEPT !.executionResults =
        KeyedSet(s.executionResults, payload.questionId, payload.result)]

examReducer(s, action) ==
    CASE action.type = "INITIALIZE" -> INITIALIZE(s, action.payload)
      [] action.type = "START_EXAM" -> START_EXAM(s)
      [] action.type = "NEXT_QUESTION" -> NEXT_QUESTION(s)
      [] action.type = "PREV_QUESTION" -> PREV_QUESTION(s)
      [] action.type = "JUMP_TO_QUESTION" -> JUMP_TO_QUESTION(s, action.payload)
      [] action.type = "ANSWER" -> ANSWER(s, action.payload)
      [] action.type = "CLEAR_ANSWER" -> CLEAR_ANSWER(s, action.payload)
      [] action.type = "TOGGLE_MARK_FOR_REVIEW" -> TOGGLE_MARK_FOR_REVIEW(s, action.payload)
      [] action.type = "TICK_TIMER" -> TICK_TIMER(s)
      [] action.type = "FINISH_EXAM" -> FINISH_EXAM(s)
      [] action.type = "SET_EXECUTING" -> SET_EXECUTING(s, action.payload)
      [] action.type = "SET_EXECUTION_RESULT" -> SET_EXECUTION_RESULT(s, action.payload)
      [] OTHER -> s

\* The reducer applied to a list of actions, first to last: what a run of
\* dispatch calls leaves in the state.
RECURSIVE Reduce(_, _)
Reduce(s, actions) ==
    IF actions = <<>> THEN s
    ELSE Reduce(examReducer(s, Head(actions)), Tail(actions))

Act(type) == [type |-> type]
ActP(type, payload) == [type |-> type, payload |-> payload]

----------------------------------------------------------------------------
(* The exam session: what the component renders and which handlers it offers *)

\* examData and shuffledQuestions: n questions in display order, the i-th with
\* cases[i] test cases; seconds = examData.duration * 60; studentExamData: a
\* SubmissionRecord of this student for this exam was found when loading;
\* language: examData.language is set
Exams ==
    UNION { { [n |-> n, seconds |-> d, cases |-> c,
               hasMinimumTime |-> hm[1], minimumSeconds |-> hm[2],
               store |-> "ok", studentExamData |-> prior, language |-> TRUE] :
                 d \in 0..MaxDuration, c \in {[k \in 1..n |-> 2], [k \in 1..n |-> IF k = n THEN 0 ELSE 2]},
                 hm \in {<<FALSE, 0>>}, prior \in BOOLEAN } :
            n \in 1..MaxQuestions }

\* const currentQuestion = shuffledQuestions[state.currentQuestionIndex]
currentQuestion == KeyAt(state.statuses, state.currentQuestionIndex)

IsSecure == monitor.isFullscreen /\ monitor.isPageVisible

\* A variant without the early return on state.examFinished
ExamScreenShownWhenFinished ==
    /\ ~exam.studentExamData
    /\ state.examStarted
    /\ IsSecure

\* A variant without the early return on studentExamData
StartScreenShownDespiteRecord == ~state.examStarted

\* The start screen is rendered: no earlier submission was found
\* (if (studentExamData) return ...) and the exam is not started
StartScreenShown ==
    /\ ~exam.studentExamData
    /\ ~state.examStarted

\* The exam screen is rendered: none of the early returns of the component is
\* taken (already completed, not started, left the secure environment,
\* finished).
ExamScreenShown ==
    /\ ~exam.studentExamData
    /\ state.examStarted
    /\ IsSecure
    /\ ~state.examFinished

\* A variant that ignores examData.minimumTime: the threshold is always half
\* the duration
isSubmitDisabledHalfOnly ==
    2 * (exam.seconds - state.timeLeft) < exam.seconds

\* elapsedTime < minimumTimeInSeconds, with minimumTime ?? duration * 0.5
isSubmitDisabled ==
    LET elapsedTime == exam.seconds - state.timeLeft
    IN  IF exam.hasMinimumTime
        THEN elapsedTime < exam.minimumSeconds
        ELSE 2 * elapsedTime < exam.seconds

\* What `dispatched` keeps of an action: its type and the question id or
\* index it names
Summary(action) ==
    [ type |-> action.type,
      target |->
        CASE action.type \in {"CLEAR_ANSWER", "TOGGLE_MARK_FOR_REVIEW"} -> action.payload
          [] action.type \in {"ANSWER", "SET_EXECUTING", "SET_EXECUTION_RESULT"} ->
                action.payload.questionId
          [] action.type = "JUMP_TO_QUESTION" -> ToString(action.payload)
          [] OTHER -> "" ]

\* The condition of the auto-submit effect:
\* timeLeft === 0 && examStarted && !examFinished && !isSubmitting
EffectPending ==
    /\ state.timeLeft = 0
    /\ state.examStarted
    /\ ~state.examFinished
    /\ ~isSubmitting

\* The effects of the last render have run: React runs them before it handles
\* the next click, timer or browser event
Settled == ~EffectPending

\* dispatch(a1); dispatch(a2); ...
Dispatch(actions) ==
    /\ state' = Reduce(state, actions)
    /\ dispatched' = [i \in 1..Len(actions) |-> Summary(actions[i])]

NoDispatch ==
    /\ state' = state
    /\ dispatched' = <<>>

----------------------------------------------------------------------------
(* handleSubmitExam *)

\* state.answers.get(q.id) || ""
SourceOf(snap, questionId) ==
    LET a == KeyedGet(snap.answers, questionId)
    IN  IF a \in {Undefined, Null, ""} THEN "" ELSE a

\* state.statuses.get(q.id) || 'not-visited'
StatusOf(snap, questionId) ==
    LET st == MapGet(snap.statuses, questionId)
    IN  IF st = Undefined THEN "not-visited" ELSE st

\* A variant that does not test sourceCode: q.testCases && q.testCases.length > 0
NeedsGradingAnyCode(snap, k) == exam.cases[k] > 0

\* sourceCode && examData.language && q.testCases && q.testCases.length > 0,
\* for the k-th question of shuffledQuestions
NeedsGrading(snap, k) ==
    /\ SourceOf(snap, QuestionIds[k]) # ""
    /\ exam.language
    /\ exam.cases[k] > 0

answerPayload(snap, k) ==
    [ questionId |-> QuestionIds[k],
      sourceCode |-> SourceOf(snap, QuestionIds[k]),
      status |-> StatusOf(snap, QuestionIds[k]) ]

\* marks: (result.totalPassed / result.totalCases) * 100, an exact integer for
\* the test-case counts of Exams
GradedAnswer(snap, k, result) ==
    [ questionId |-> QuestionIds[k],
      sourceCode |-> SourceOf(snap, QuestionIds[k]),
      status |-> StatusOf(snap, QuestionIds[k]),
      totalPassed |-> result.totalPassed,
      totalCases |-> result.totalCases,
      marks |-> (result.totalPassed * 100) \div result.totalCases ]

\* A variant whose catch attaches no error: answerPayload.marks = 0 only
FailedAnswerSilent(snap, k) ==
    [ questionId |-> QuestionIds[k],
      sourceCode |-> SourceOf(snap, QuestionIds[k]),
      status |-> StatusOf(snap, QuestionIds[k]),
      marks |-> 0 ]

\* catch: error: `Execution failed during final submission: ${error.message}`
FailedAnswer(snap, k) ==
    [ questionId |-> QuestionIds[k],
      sourceCode |-> SourceOf(snap, QuestionIds[k]),
      status |-> StatusOf(snap, QuestionIds[k]),
      error |-> "Execution failed during final submission",
      marks |-> 0 ]

UngradedAnswer(snap, k) ==
    [ questionId |-> QuestionIds[k],
      sourceCode |-> SourceOf(snap, QuestionIds[k]),
      status |-> StatusOf(snap, QuestionIds[k]),
      marks |-> 0 ]

\* A variant that reads the session through a ref: the loop sees the answers
\* and statuses of the latest render
LoopStateLatest(call) == [answers |-> state.answers, statuses |-> state.statuses]

\* The `state` the loop reads is the one the useCallback closure captured when
\* handleSubmitExam was invoked; the reducer never mutates its Maps
LoopState(call) == call.snap

\* A variant that grades concurrently: every remaining question that needs
\* grading has its executeCode call started at once
StartedGradingsAtOnce(call, k) == {j \in k..exam.n : NeedsGrading(call.snap, j)}

\* The executeCode calls started when the loop reaches question k, which needs
\* grading: `await executeCode(...)` inside the loop body, for q alone
StartedGradings(call, k) == {k}

\* The for loop over shuffledQuestions up to its next await: the questions
\* with no code or no test cases are pushed with marks 0 without suspending.
\* inFlight: the questions whose executeCode call has not settled yet;
\* executed: the source codes passed to executeCode so far.
RECURSIVE Advance(_)
Advance(call) ==
    LET k == Len(call.studentAnswers) + 1
    IN  IF k > exam.n THEN call
        ELSE IF NeedsGrading(LoopState(call), k)
        THEN [call EXCEPT !.inFlight = StartedGradings(call, k),
                          !.executed = Append(@,
                              [questionId |-> QuestionIds[k],
                               sourceCode |-> SourceOf(LoopState(call), QuestionIds[k])])]
        ELSE Advance([call EXCEPT !.studentAnswers =
                        Append(call.studentAnswers, UngradedAnswer(LoopState(call), k))])

LoopDone(call) == Len(call.studentAnswers) = exam.n

RECURSIVE SumMarks(_)
SumMarks(answers) ==
    IF answers = <<>> THEN 0 ELSE Head(answers).marks + SumMarks(Tail(answers))

\* A variant that averages over the answers that scored: divides by the number
\* of answers with marks > 0
finalScoreOverScored(answers) ==
    LET scored == {i \in 1..Len(answers) : answers[i].marks > 0}
    IN  IF scored # {} THEN [num |-> SumMarks(answers), den |-> Cardinality(scored)]
        ELSE [num |-> 0, den |-> 1]

\* totalMarks / studentAnswers.length, kept as a fraction; 0 with no answers
finalScore(answers) ==
    IF Len(answers) > 0 THEN [num |-> SumMarks(answers), den |-> Len(answers)]
    ELSE [num |-> 0, den |-> 1]

\* A variant that looks into the details: 'suspicious' if
\* autoSubmitDetails?.autoSubmitted
submissionPayloadByFlag(call) ==
    [ answers |-> call.studentAnswers,
      score |-> finalScore(call.studentAnswers),
      status |-> IF call.details.given /\ call.details.autoSubmitted
                 THEN "suspicious" ELSE "graded",
      given |-> call.details.given,
      autoSubmitted |-> call.details.autoSubmitted,
      exitCount |-> call.details.exitCount ]

\* status: 'graded', ...autoSubmitDetails; 'suspicious' if autoSubmitDetails.
\* `given` records whether the details were spread into the payload; when they
\* were not, autoSubmitted and exitCount are absent from the written record.
submissionPayload(call) ==
    [ answers |-> call.studentAnswers,
      score |-> finalScore(call.studentAnswers),
      status |-> IF call.details.given THEN "suspicious" ELSE "graded",
      given |-> call.details.given,
      autoSubmitted |-> call.details.autoSubmitted,
      exitCount |-> call.details.exitCount ]

\* A variant whose early return does not test isSubmitting
SubmitGuardWithoutLatch == TRUE

\* if (!state || !user || !examData || isSubmitting || !studentExamDocRef) return
SubmitGuard == ~isSubmitting

\* The write attempts so far that failed
FailedWrites(writes) == {w \in 1..Len(writes) : writes[w].outcome # "ok"}

\* What the store does with the next write: "ok"; "throws", the call of
\* setDocumentNonBlocking throws; "rejects", the call returns and the write
\* fails afterwards. A failing store fails MaxWriteFailures times.
WriteOutcome(base) ==
    IF Cardinality(FailedWrites(base.writes)) < MaxWriteFailures
    THEN exam.store ELSE "ok"

\* A variant that leaves the exam before it saves: dispatch FINISH_EXAM and
\* router.push first, setDocumentNonBlocking last
CompleteBeforeWrite(call, base) ==
    LET attempt == [outcome |-> "ok", snap |-> call.snap, executed |-> call.executed]
                   @@ submissionPayload(call)
    IN  /\ Dispatch(<<Act("FINISH_EXAM")>>)
        /\ isSubmitting' = TRUE
        /\ log' = [base EXCEPT !.writes = Append(@, attempt),
                               !.finishes = @ + 1,
                               !.effects = @ \o <<"finish", "redirect", "write">>]

\* After the loop: try { setDocumentNonBlocking(...); dispatch FINISH_EXAM;
\* redirect } catch { toast; setIsSubmitting(false) }. The write is not
\* awaited, so only an exception thrown by the call itself reaches the catch.
Complete(call, base) ==
    LET outcome == WriteOutcome(base)
        attempt == [outcome |-> outcome, snap |-> call.snap, executed |-> call.executed]
                   @@ submissionPayload(call)
    IN  IF outcome = "throws"
        THEN /\ NoDispatch
             /\ isSubmitting' = FALSE
             /\ log' = [base EXCEPT !.writes = Append(@, attempt),
                                    !.effects = @ \o <<"write">>]
        ELSE /\ Dispatch(<<Act("FINISH_EXAM")>>)
             /\ isSubmitting' = TRUE
             /\ log' = [base EXCEPT !.writes = Append(@, attempt),
                                    !.finishes = @ + 1,
                                    !.effects = @ \o <<"write", "finish", "redirect">>]

\* One invocation of handleSubmitExam(details), up to its first await
handleSubmitExam(details) ==
    LET counted == [log EXCEPT !.invocations = @ + 1,
                               !.overlapping = @ + (IF calls # <<>> THEN 1 ELSE 0)]
        call == Advance([details |-> details,
                         snap |-> [answers |-> state.answers, statuses |-> state.statuses],
                         studentAnswers |-> <<>>,
                         inFlight |-> {},
                         executed |-> <<>>])
    IN  IF ~SubmitGuard
        THEN /\ NoDispatch
             /\ log' = counted
             /\ UNCHANGED <<isSubmitting, calls>>
        ELSE IF LoopDone(call)
             THEN Complete(call, counted) /\ calls' = calls
             ELSE /\ isSubmitting' = TRUE
                  /\ NoDispatch /\ log' = counted /\ calls' = Append(calls, call)

Remove(seq, i) == SubSeq(seq, 1, i - 1) \o SubSeq(seq, i + 1, Len(seq))

\* The continuation of invocation i once its executeCode call has settled with
\* `answer` for the question it was waiting on
Continue(i, answer) ==
    LET k == Len(calls[i].studentAnswers) + 1
        call == Advance([calls[i] EXCEPT !.studentAnswers = Append(@, answer),
                                         !.inFlight = @ \ {k}])
    IN  IF LoopDone(call)
        THEN Complete(call, log) /\ calls' = Remove(calls, i)
        ELSE /\ isSubmitting' = isSubmitting
             /\ NoDispatch /\ log' = log /\ calls' = [calls EXCEPT ![i] = call]

\* await executeCode(...) returns a result
SubmitGraded ==
    \E i \in 1..Len(calls) :
        LET k == Len(calls[i].studentAnswers) + 1
        IN  \E passed \in 0..exam.cases[k] :
                /\ Continue(i, GradedAnswer(LoopState(calls[i]), k,
                        [totalPassed |-> passed, totalCases |-> exam.cases[k]]))
                /\ UNCHANGED <<runs, exam, monitor, grade>>

\* await executeCode(...) throws
SubmitGradingThrows ==
    \E i \in 1..Len(calls) :
        /\ Continue(i, FailedAnswer(LoopState(calls[i]), Len(calls[i].studentAnswers) + 1))
        /\ UNCHANGED <<runs, exam, monitor, grade>>

\* A string of decimal digits is the sequence of its characters
DigitChars == <<"0", "1", "2", "3", "4", "5", "6", "7", "8", "9">>

\* String(n), for a counter n >= 0
RECURSIVE String(_)
String(n) ==
    IF n < 10 THEN <<DigitChars[n + 1]>>
    ELSE String(n \div 10) \o <<DigitChars[(n % 10) + 1]>>

\* localStorage.getItem(`fullscreenExitCount_${examId}`): what the monitor
\* persisted, <<>> (falsy) while it has never written the counter
fullscreenExitCountItem ==
    IF monitor.exitCount = 0 THEN <<>> ELSE String(monitor.exitCount)

\* parseInt(str, 10) on a string that starts with a digit: the value of its
\* leading digits
RECURSIVE parseIntFrom(_, _)
parseIntFrom(str, value) ==
    IF str = <<>> \/ \A d \in 1..10 : DigitChars[d] # Head(str) THEN value
    ELSE parseIntFrom(Tail(str),
            10 * value + (CHOOSE d \in 0..9 : DigitChars[d + 1] = Head(str)))

parseInt(str) == parseIntFrom(str, 0)

\* A variant that reports the submission as a manual one: autoSubmitted: false
handleAutoSubmitAsManual(item) ==
    handleSubmitExam([given |-> TRUE, autoSubmitted |-> FALSE,
                      exitCount |-> parseInt(IF item = <<>> THEN <<"0">> ELSE item)])

\* A variant that does not read the persisted counter: exitCount: 0
handleAutoSubmitWithoutCount(item) ==
    handleSubmitExam([given |-> TRUE, autoSubmitted |-> TRUE, exitCount |-> 0])

\* handleAutoSubmit: parseInt(localStorage.getItem(...) || '0', 10), then
\* handleSubmitExam({ autoSubmitted: true, exitCount })
handleAutoSubmit(item) ==
    handleSubmitExam([given |-> TRUE, autoSubmitted |-> TRUE,
                      exitCount |-> parseInt(IF item = <<>> THEN <<"0">> ELSE item)])

----------------------------------------------------------------------------
(* What the student does on the rendered screens *)

Session == <<state, dispatched, isSubmitting, calls, log>>

\* Start Exam: enterFullscreen(); dispatch START_EXAM
StartExam ==
    /\ StartScreenShown
    /\ Dispatch(<<Act("START_EXAM")>>)
    /\ monitor' = [monitor EXCEPT !.isFullscreen = TRUE]
    /\ UNCHANGED <<isSubmitting, calls, runs, log, exam, grade>>

\* Next, disabled on the last question
NextQuestion ==
    /\ ExamScreenShown
    /\ Settled
    /\ log.events < log.budget
    /\ state.currentQuestionIndex # state.totalQuestions - 1
    /\ Dispatch(<<Act("NEXT_QUESTION")>>)
    /\ log' = [log EXCEPT !.events = @ + 1]
    /\ UNCHANGED <<isSubmitting, calls, runs, exam, monitor, grade>>

\* Previous, disabled on the first question
PrevQuestion ==
    /\ ExamScreenShown
    /\ Settled
    /\ log.events < log.budget
    /\ state.currentQuestionIndex # 0
    /\ Dispatch(<<Act("PREV_QUESTION")>>)
    /\ log' = [log EXCEPT !.events = @ + 1]
    /\ UNCHANGED <<isSubmitting, calls, runs, exam, monitor, grade>>

\* QuestionPalette: one button per entry of statuses, dispatching its index
JumpToQuestion ==
    /\ ExamScreenShown
    /\ Settled
    /\ log.events < log.budget
    /\ \E index \in 0..(Len(state.statuses) - 1) :
           Dispatch(<<ActP("JUMP_TO_QUESTION", index)>>)
    /\ log' = [log EXCEPT !.events = @ + 1]
    /\ UNCHANGED <<isSubmitting, calls, runs, exam, monitor, grade>>

\* Editor onChange on the current question
EditAnswer ==
    /\ ExamScreenShown
    /\ Settled
    /\ log.events < log.budget
    /\ \E code \in SourceCodes :
           Dispatch(<<ActP("ANSWER", [questionId |-> currentQuestion, sourceCode |-> code])>>)
    /\ log' = [log EXCEPT !.events = @ + 1]
    /\ UNCHANGED <<isSubmitting, calls, runs, exam, monitor, grade>>

\* Clear Response
ClearResponse ==
    /\ ExamScreenShown
    /\ Settled
    /\ log.events < log.budget
    /\ Dispatch(<<ActP("CLEAR_ANSWER", currentQuestion)>>)
    /\ log' = [log EXCEPT !.events = @ + 1]
    /\ UNCHANGED <<isSubmitting, calls, runs, exam, monitor, grade>>

\* Mark for Review
MarkForReview ==
    /\ ExamScreenShown
    /\ Settled
    /\ log.events < log.budget
    /\ Dispatch(<<ActP("TOGGLE_MARK_FOR_REVIEW", currentQuestion)>>)
    /\ log' = [log EXCEPT !.events = @ + 1]
    /\ UNCHANGED <<isSubmitting, calls, runs, exam, monitor, grade>>

\* End Exam, then Submit Exam in the dialog: both disabled while isSubmitting,
\* the trigger also while isSubmitDisabled
EndExam ==
    /\ ExamScreenShown
    /\ Settled
    /\ ~isSubmitting
    /\ ~isSubmitDisabled
    /\ handleSubmitExam([given |-> TRUE, autoSubmitted |-> FALSE,
                         exitCount |-> monitor.exitCount])
    /\ UNCHANGED <<runs, exam, monitor, grade>>

----------------------------------------------------------------------------
(* handleRunCode *)

\* A variant that tests the source code alone: if (!sourceCode)
CannotRunWithoutCode(sourceCode) == sourceCode \in {Undefined, Null, ""}

\* if (!sourceCode || !examData?.language): toast "Cannot run code", return
CannotRun(sourceCode) ==
    \/ sourceCode \in {Undefined, Null, ""}
    \/ ~exam.language

\* Run Code on the current question, disabled while it is executing
RunCode ==
    /\ ExamScreenShown
    /\ Settled
    /\ KeyedGet(state.isExecuting, currentQuestion) # "true"
    /\ log.events < log.budget
    /\ LET sourceCode == KeyedGet(state.answers, currentQuestion)
       IN  IF CannotRun(sourceCode)
           THEN /\ NoDispatch
                /\ runs' = runs
           ELSE /\ Dispatch(<<ActP("SET_EXECUTING",
                        [questionId |-> currentQuestion, isExecuting |-> "true"])>>)
                /\ runs' = runs \cup {[questionId |-> currentQuestion,
                                      sourceCode |-> sourceCode]}
    /\ log' = [log EXCEPT !.events = @ + 1]
    /\ UNCHANGED <<isSubmitting, calls, exam, monitor, grade>>

RunResults == {"passed", "failed"}

\* executeCode returns: SET_EXECUTION_RESULT, then finally SET_EXECUTING false
RunReturns ==
    \E r \in runs, result \in RunResults :
        /\ Dispatch(<<ActP("SET_EXECUTION_RESULT",
                          [questionId |-> r.questionId, result |-> result]),
                      ActP("SET_EXECUTING",
                          [questionId |-> r.questionId, isExecuting |-> "false"])>>)
        /\ runs' = runs \ {r}
        /\ log' = [log EXCEPT !.resolved[r.questionId] = Append(@, result)]
        /\ UNCHANGED <<isSubmitting, calls, exam, monitor, grade>>

\* A variant without the finally block: the catch shows the toast and the
\* handler ends
RunThrowsWithoutFinally ==
    \E r \in runs :
        /\ NoDispatch
        /\ runs' = runs \ {r}
        /\ UNCHANGED <<isSubmitting, calls, log, exam, monitor, grade>>

\* executeCode throws: the toast, then finally SET_EXECUTING false
RunThrows ==
    \E r \in runs :
        /\ Dispatch(<<ActP("SET_EXECUTING",
                          [questionId |-> r.questionId, isExecuting |-> "false"])>>)
        /\ runs' = runs \ {r}
        /\ UNCHANGED <<isSubmitting, calls, log, exam, monitor, grade>>

----------------------------------------------------------------------------
(* The timer and the auto-submit effect *)

Running == state.examStarted /\ ~state.examFinished

\* setInterval(() => dispatch TICK_TIMER, 1000), alive while started and not
\* finished
TimerTick ==
    /\ Running
    /\ Settled
    /\ Dispatch(<<Act("TICK_TIMER")>>)
    /\ UNCHANGED <<isSubmitting, calls, runs, log, exam, monitor, grade>>

\* useEffect: timeLeft === 0 && examStarted && !examFinished && !isSubmitting
AutoSubmitEffect ==
    /\ EffectPending
    /\ handleAutoSubmit(fullscreenExitCountItem)
    /\ UNCHANGED <<runs, exam, monitor, grade>>

----------------------------------------------------------------------------
(* useFullscreenEnforcement: the proctoring monitor *)

\* A change of fullscreen or visibility to (fs, pv) while the attempt runs
Observe(fs, pv) ==
    /\ Running
    /\ Settled
    /\ IF IsSecure /\ ~(fs /\ pv)
       THEN /\ monitor.exitCount < MaxExitCount
            /\ monitor' = [isFullscreen |-> fs, isPageVisible |-> pv,
                           counting |-> TRUE, countdown |-> CountdownSeconds,
                           exitCount |-> monitor.exitCount + 1]
       ELSE IF fs /\ pv
       THEN monitor' = [monitor EXCEPT !.isFullscreen = fs, !.isPageVisible = pv,
                                       !.counting = FALSE, !.countdown = 0]
       ELSE monitor' = [monitor EXCEPT !.isFullscreen = fs, !.isPageVisible = pv]
    /\ dispatched' = <<>>
    /\ UNCHANGED <<state, isSubmitting, calls, runs, log, exam, grade>>

FullscreenChange == Observe(~monitor.isFullscreen, monitor.isPageVisible)

VisibilityChange == Observe(monitor.isFullscreen, ~monitor.isPageVisible)

\* One second of the countdown; at zero the monitor calls onAutoSubmit
CountdownTick ==
    /\ Running
    /\ monitor.counting
    /\ IF monitor.countdown > 1
       THEN /\ monitor' = [monitor EXCEPT !.countdown = @ - 1]
            /\ dispatched' = <<>>
            /\ UNCHANGED <<state, isSubmitting, calls, log>>
       ELSE /\ monitor' = [monitor EXCEPT !.countdown = 0, !.counting = FALSE]
            /\ handleAutoSubmit(fullscreenExitCountItem)
    /\ UNCHANGED <<runs, exam, grade>>

----------------------------------------------------------------------------
(* The session as a whole *)

GradeIdle == [pc |-> "idle"]

\* The session once examData, studentExamData and the user are loaded
Loaded ==
    /\ state = examReducer(initialState(0, 0),
                   ActP("INITIALIZE", initialState(exam.n, exam.seconds)))
    /\ dispatched = <<>>
    /\ isSubmitting = FALSE
    /\ calls = <<>>
    /\ runs = {}
    /\ log = [invocations |-> 0, overlapping |-> 0, writes |-> <<>>,
              finishes |-> 0, events |-> 0, effects |-> <<>>,
              budget |-> MaxUserEvents, resolved |-> NoneResolved]
    /\ monitor = [isFullscreen |-> FALSE, isPageVisible |-> TRUE,
                  counting |-> FALSE, countdown |-> 0, exitCount |-> 0]
    /\ grade = GradeIdle

Init == exam \in Exams /\ Loaded

\* The same session against a store that fails the final write
FailingStores == {"throws", "rejects"}

InitWrite ==
    /\ exam \in {[e EXCEPT !.store = s] : e \in Exams, s \in FailingStores}
    /\ Loaded

Next ==
    \/ StartExam
    \/ NextQuestion
    \/ PrevQuestion
    \/ JumpToQuestion
    \/ EditAnswer
    \/ ClearResponse
    \/ MarkForReview
    \/ EndExam
    \/ RunCode
    \/ RunReturns
    \/ RunThrows
    \/ TimerTick
    \/ AutoSubmitEffect
    \/ FullscreenChange
    \/ VisibilityChange
    \/ CountdownTick
    \/ SubmitGraded
    \/ SubmitGradingThrows

Spec == Init /\ [][Next]_vars

SpecWrite == InitWrite /\ [][Next]_vars

FairSpec ==
    /\ Spec
    /\ WF_vars(TimerTick)
    /\ WF_vars(AutoSubmitEffect)
    /\ WF_vars(CountdownTick)
    /\ WF_vars(SubmitGraded)
    /\ WF_vars(RunReturns)

\* The submit loop on a session in which the student has already typed: the
\* typed answers are drawn at the start, one per question or none, and the
\* attempt has run for all but the last second of the exam.
TypedAnswers(n) == [1..n -> {"none"} \cup SourceCodes]

RECURSIVE Typing(_, _)
Typing(typed, k) ==
    IF k > Len(typed) THEN <<>>
    ELSE IF typed[k] = "none" THEN Typing(typed, k + 1)
    ELSE <<ActP("JUMP_TO_QUESTION", k - 1),
           ActP("ANSWER", [questionId |-> QuestionIds[k], sourceCode |-> typed[k]])>>
         \o Typing(typed, k + 1)

InitSubmit ==
    /\ exam \in {e \in Exams : e.seconds = MaxDuration /\ ~e.studentExamData}
    /\ \E typed \in TypedAnswers(exam.n) :
           state = Reduce(initialState(0, 0),
                     <<ActP("INITIALIZE", initialState(exam.n, exam.seconds)),
                       Act("START_EXAM")>>
                     \o Typing(typed, 1)
                     \o [t \in 1..(exam.seconds - 1) |-> Act("TICK_TIMER")])
    /\ dispatched = <<>>
    /\ isSubmitting = FALSE
    /\ calls = <<>>
    /\ runs = {}
    /\ log = [invocations |-> 0, overlapping |-> 0, writes |-> <<>>,
              finishes |-> 0, events |-> 0, effects |-> <<>>,
              budget |-> MaxUserEvents, resolved |-> NoneResolved]
    /\ monitor = [isFullscreen |-> TRUE, isPageVisible |-> TRUE,
                  counting |-> FALSE, countdown |-> 0, exitCount |-> 0]
    /\ grade = GradeIdle

NextSubmit ==
    \/ EndExam
    \/ TimerTick
    \/ SubmitGraded
    \/ SubmitGradingThrows

SpecSubmit == InitSubmit /\ [][NextSubmit]_vars

\* The ways out of a started session: End Exam, the timer and the monitor, in
\* exams with and without a minimumTime, from any elapsed time
MinimumTimes ==
    {<<FALSE, 0>>} \cup {<<TRUE, m>> : m \in 0..MaxDuration}

InitEnd ==
    /\ exam \in {[e EXCEPT !.hasMinimumTime = hm[1], !.minimumSeconds = hm[2]] :
                    e \in {x \in Exams : x.seconds = MaxDuration /\ ~x.studentExamData},
                    hm \in MinimumTimes}
    /\ \E typed \in TypedAnswers(exam.n), elapsed \in 0..(exam.seconds - 1) :
           state = Reduce(initialState(0, 0),
                     <<ActP("INITIALIZE", initialState(exam.n, exam.seconds)),
                       Act("START_EXAM")>>
                     \o Typing(typed, 1)
                     \o [t \in 1..elapsed |-> Act("TICK_TIMER")])
    /\ dispatched = <<>>
    /\ isSubmitting = FALSE
    /\ calls = <<>>
    /\ runs = {}
    /\ log = [invocations |-> 0, overlapping |-> 0, writes |-> <<>>,
              finishes |-> 0, events |-> 0, effects |-> <<>>,
              budget |-> MaxUserEvents, resolved |-> NoneResolved]
    /\ monitor = [isFullscreen |-> TRUE, isPageVisible |-> TRUE,
                  counting |-> FALSE, countdown |-> 0, exitCount |-> 0]
    /\ grade = GradeIdle

NextEnd ==
    \/ EndExam
    \/ TimerTick
    \/ FullscreenChange
    \/ VisibilityChange
    \/ CountdownTick
    \/ SubmitGraded
    \/ SubmitGradingThrows

SpecEnd == InitEnd /\ [][NextEnd]_vars

\* Run on a session with answers already typed, in an exam that may have no
\* language, the student moving between the questions
InitRun ==
    /\ exam \in {[e EXCEPT !.language = l] :
                    e \in {x \in Exams : /\ x.n = MaxQuestions
                                         /\ x.seconds = MaxDuration
                                         /\ \A k \in 1..x.n : x.cases[k] > 0
                                         /\ ~x.studentExamData},
                    l \in BOOLEAN}
    /\ \E typed \in TypedAnswers(exam.n) :
           state = Reduce(initialState(0, 0),
                     <<ActP("INITIALIZE", initialState(exam.n, exam.seconds)),
                       Act("START_EXAM")>>
                     \o Typing(typed, 1))
    /\ dispatched = <<>>
    /\ isSubmitting = FALSE
    /\ calls = <<>>
    /\ runs = {}
    /\ log = [invocations |-> 0, overlapping |-> 0, writes |-> <<>>,
              finishes |-> 0, events |-> 0, effects |-> <<>>,
              budget |-> MaxRunEvents, resolved |-> NoneResolved]
    /\ monitor = [isFullscreen |-> TRUE, isPageVisible |-> TRUE,
                  counting |-> FALSE, countdown |-> 0, exitCount |-> 0]
    /\ grade = GradeIdle

NextRun ==
    \/ RunCode
    \/ RunReturns
    \/ RunThrows
    \/ NextQuestion
    \/ PrevQuestion

SpecRun == InitRun /\ [][NextRun]_vars

\* SpecRun with every awaited executeCode call settling: it returns unless it
\* throws
FairSpecRun == SpecRun /\ WF_vars(RunReturns)

----------------------------------------------------------------------------
(* examReducer on its own *)

Idle ==
    /\ dispatched = <<>>
    /\ isSubmitting = FALSE
    /\ calls = <<>>
    /\ runs = {}
    /\ log = [invocations |-> 0, overlapping |-> 0, writes |-> <<>>,
              finishes |-> 0, events |-> 0, effects |-> <<>>,
              budget |-> MaxUserEvents, resolved |-> NoneResolved]
    /\ monitor = [isFullscreen |-> FALSE, isPageVisible |-> TRUE,
                  counting |-> FALSE, countdown |-> 0, exitCount |-> 0]
    /\ grade = GradeIdle

InitReducer ==
    /\ exam = [n |-> ReducerQuestions, seconds |-> MaxDuration,
               cases |-> [k \in 1..ReducerQuestions |-> 2],
               hasMinimumTime |-> FALSE, minimumSeconds |-> 0]
    /\ state = examReducer(initialState(0, 0),
                   ActP("INITIALIZE", initialState(exam.n, exam.seconds)))
    /\ Idle

Keys(s) == {s.statuses[i].key : i \in 1..Len(s.statuses)}

\* dispatch(action) for one navigation or answer event, the payload of a
\* jump drawn from `jumps`
DispatchOne(jumps) ==
    \/ Dispatch(<<Act("START_EXAM")>>)
    \/ Dispatch(<<Act("NEXT_QUESTION")>>)
    \/ Dispatch(<<Act("PREV_QUESTION")>>)
    \/ \E p \in jumps : Dispatch(<<ActP("JUMP_TO_QUESTION", p)>>)
    \/ \E q \in Keys(state), c \in SourceCodes :
           Dispatch(<<ActP("ANSWER", [questionId |-> q, sourceCode |-> c])>>)
    \/ \E q \in Keys(state) : Dispatch(<<ActP("CLEAR_ANSWER", q)>>)
    \/ \E q \in Keys(state) : Dispatch(<<ActP("TOGGLE_MARK_FOR_REVIEW", q)>>)

\* Any event with any payload: a jump payload is any integer from one below
\* to one above the indices of the questions
DispatchAny ==
    /\ DispatchOne((-1)..state.totalQuestions)
    /\ UNCHANGED <<isSubmitting, calls, runs, log, exam, monitor, grade>>

SpecReducer == InitReducer /\ [][DispatchAny]_vars

\* The events as the screens dispatch them: a jump payload is the index of a
\* palette button, Start Exam comes first and only once
DispatchEvent ==
    /\ DispatchOne(0..(Len(state.statuses) - 1))
    /\ (dispatched'[1].type = "START_EXAM") = ~state.examStarted
    /\ UNCHANGED <<isSubmitting, calls, runs, log, exam, monitor, grade>>

\* Mark for Review clicked twice on question q with nothing in between
ToggleTwice ==
    /\ state.examStarted
    /\ \E q \in Keys(state) :
           Dispatch(<<ActP("TOGGLE_MARK_FOR_REVIEW", q),
                      ActP("TOGGLE_MARK_FOR_REVIEW", q)>>)
    /\ UNCHANGED <<isSubmitting, calls, runs, log, exam, monitor, grade>>

NextNav == DispatchEvent \/ ToggleTwice

SpecNav == InitReducer /\ [][NextNav]_vars

\* The same events on the exams of the session, of 1..MaxQuestions questions
InitAnswer ==
    /\ exam \in {e \in Exams : e.seconds = MaxDuration /\ ~e.studentExamData}
    /\ state = examReducer(initialState(0, 0),
                   ActP("INITIALIZE", initialState(exam.n, exam.seconds)))
    /\ Idle

SpecAnswer == InitAnswer /\ [][NextNav]_vars

----------------------------------------------------------------------------
(* executeCodeFlow: one grading call against the sandbox *)

\* A string is the sequence of its pieces; "" is <<>>.
IsSpace(c) == c \in {" ", "\n"}

RECURSIVE TrimStart(_)
TrimStart(str) ==
    IF str # <<>> /\ IsSpace(Head(str)) THEN TrimStart(Tail(str)) ELSE str

RECURSIVE TrimEnd(_)
TrimEnd(str) ==
    IF str # <<>> /\ IsSpace(str[Len(str)])
    THEN TrimEnd(SubSeq(str, 1, Len(str) - 1))
    ELSE str

\* String.prototype.trim
Trim(str) == TrimEnd(TrimStart(str))

\* a || b on strings
OrElse(a, b) == IF a = <<>> THEN b ELSE a

TestCases ==
    { [input |-> <<"1">>, expectedOutput |-> <<"4">>],
      [input |-> <<"2">>, expectedOutput |-> <<"4", "\n">>] }

\* What the sandbox can put in run.output and run.stderr, and in the status
\* text and body of a response that is not ok
Outputs == { <<>>, <<" ", "4", "\n">>, <<"5">> }
Stderrs == { <<>>, <<"warning">> }
StatusTexts == { <<>>, <<"Too Many Requests">> }
ErrorBodies == { <<>>, <<"overloaded">> }
ErrorMessages == { <<>>, <<"fetch failed">> }

\* Where an exception can be raised while one request is handled: fetch
\* rejects, response.text() or response.json() rejects, or the body has no run
\* field and result.run.output throws a TypeError
ThrowSteps == {"fetch", "text", "json", "run"}

\* error.message of the exception raised at `step`
ThrownMessages(step) ==
    IF step = "run" THEN {<<"Cannot read properties of undefined">>}
    ELSE ErrorMessages

\* A variant whose try block ends after the fetch call
CaughtFetchOnly(step) == step = "fetch"

\* The try block encloses the whole handling of a request (fetch,
\* response.text(), response.json(), result.run...), in the loop body and in
\* the branch without test cases alike
Caught(step) == step \in ThrowSteps

\* A variant that only tests for absence: if (!input.testCases)
NoTestCasesAbsentOnly(input) == ~input.given

\* !input.testCases || input.testCases.length === 0
NoTestCases(input) == ~input.given \/ Len(input.testCases) = 0

\* `API Error: ${response.statusText}${errorBody ? ` - ${errorBody}` : ''}`
apiErrorMessage(statusText, errorBody) ==
    <<"API Error: ">> \o statusText
        \o (IF errorBody # <<>> THEN <<" - ">> \o errorBody ELSE <<>>)

testCase == grade.testCases[grade.i]

\* result.run.stderr || undefined
UndefinedStr == <<Undefined>>

\* A variant without the fallback text: error.message
catchMessageRaw(message) == message

\* error.message || 'An unknown error occurred.'
catchMessage(message) == OrElse(message, <<"An unknown error occurred.">>)

\* A variant that counts every answered case: totalPassed++
countPassedAlways(totalPassed, isCorrect) == totalPassed + 1

\* if (isCorrect) { totalPassed++; }
countPassed(totalPassed, isCorrect) ==
    IF isCorrect THEN totalPassed + 1 ELSE totalPassed

\* A variant without the fallback text of the branch without test cases
rawCatchMessageRaw(message) == message

\* error.message || 'An unknown execution error occurred.'
rawCatchMessage(message) == OrElse(message, <<"An unknown execution error occurred.">>)

\* The end of one iteration of the for loop over input.testCases; the next
\* iteration sends its request with stdin: testCase.input
NextCase(g) ==
    IF g.i < Len(g.testCases)
    THEN [g EXCEPT !.i = @ + 1, !.pc = "fetch",
                   !.trace = Append(@, "fetch"),
                   !.stdins = Append(@, g.testCases[g.i + 1].input)]
    ELSE [g EXCEPT !.pc = "return"]

\* The flow is entered: without test cases one request with stdin: '',
\* otherwise the loop over input.testCases
Begin ==
    /\ grade.pc = "start"
    /\ grade' =
         IF NoTestCases(grade)
         THEN [grade EXCEPT !.pc = "raw", !.trace = <<"fetch">>, !.stdins = << <<>> >>]
         ELSE IF Len(grade.testCases) = 0
         THEN [grade EXCEPT !.pc = "return"]
         ELSE [grade EXCEPT !.pc = "fetch", !.trace = <<"fetch">>,
                            !.stdins = <<grade.testCases[1].input>>]
    /\ UNCHANGED <<state, dispatched, isSubmitting, calls, runs, log, exam, monitor>>

\* Without test cases, !response.ok: return { ..., rawError: errorMessage }
RawNotOk ==
    /\ grade.pc = "raw"
    /\ \E statusText \in StatusTexts, errorBody \in ErrorBodies :
         grade' = [grade EXCEPT !.pc = "done", !.rawOutcome = "not ok",
                     !.output = [ results |-> <<>>, totalCases |-> 0, totalPassed |-> 0,
                                  rawError |-> apiErrorMessage(statusText, errorBody) ]]
    /\ UNCHANGED <<state, dispatched, isSubmitting, calls, runs, log, exam, monitor>>

\* Without test cases, an ok response: rawOutput: (result.run.output || '').trim(),
\* rawError: (result.run.stderr || '').trim() || undefined
RawOk ==
    /\ grade.pc = "raw"
    /\ \E output \in Outputs, stderr \in Stderrs :
         grade' = [grade EXCEPT !.pc = "done", !.rawOutcome = "ok", !.rawSent = output,
                     !.output = [ results |-> <<>>, totalCases |-> 0, totalPassed |-> 0,
                                  rawOutput |-> Trim(OrElse(output, <<>>)),
                                  rawError |-> OrElse(Trim(OrElse(stderr, <<>>)),
                                                      UndefinedStr) ]]
    /\ UNCHANGED <<state, dispatched, isSubmitting, calls, runs, log, exam, monitor>>

\* Without test cases, an exception: the catch returns
\* { ..., rawError: error.message || 'An unknown execution error occurred.' }
RawThrows ==
    /\ grade.pc = "raw"
    /\ \E step \in ThrowSteps :
         \E message \in ThrownMessages(step) :
            IF Caught(step)
            THEN grade' = [grade EXCEPT !.pc = "done", !.rawOutcome = "threw",
                     !.output = [ results |-> <<>>, totalCases |-> 0, totalPassed |-> 0,
                                  rawError |-> rawCatchMessage(message) ]]
            ELSE grade' = [grade EXCEPT !.pc = "threw"]
    /\ UNCHANGED <<state, dispatched, isSubmitting, calls, runs, log, exam, monitor>>

\* fetch resolves with !response.ok: the failed result is pushed, then continue
ResponseNotOk ==
    /\ grade.pc = "fetch"
    /\ \E statusText \in StatusTexts, errorBody \in ErrorBodies :
         LET errorMessage == apiErrorMessage(statusText, errorBody)
         IN  grade' = NextCase([grade EXCEPT
                 !.results = Append(@,
                     [ input |-> testCase.input,
                       expectedOutput |-> testCase.expectedOutput,
                       actualOutput |-> errorMessage,
                       isCorrect |-> FALSE,
                       error |-> errorMessage ]),
                 !.outcomes = Append(@, "not ok")])
    /\ UNCHANGED <<state, dispatched, isSubmitting, calls, runs, log, exam, monitor>>

\* fetch resolves with an ok response that carries run.output and run.stderr
ResponseOk ==
    /\ grade.pc = "fetch"
    /\ \E output \in Outputs, stderr \in Stderrs :
         LET actualOutput == Trim(OrElse(output, <<>>))
             isCorrect == actualOutput = Trim(testCase.expectedOutput)
         IN  grade' = [grade EXCEPT
                 !.totalPassed = countPassed(@, isCorrect),
                 !.results = Append(@,
                     [ input |-> testCase.input,
                       expectedOutput |-> testCase.expectedOutput,
                       actualOutput |-> actualOutput,
                       isCorrect |-> isCorrect,
                       error |-> OrElse(stderr, UndefinedStr) ]),
                 !.outcomes = Append(@, "ok"),
                 !.pc = "delay"]
    /\ UNCHANGED <<state, dispatched, isSubmitting, calls, runs, log, exam, monitor>>

\* fetch rejects, or response.json() or result.run.output throws: the catch
\* block pushes the failed result
RequestThrows ==
    /\ grade.pc = "fetch"
    /\ \E step \in ThrowSteps :
         \E message \in ThrownMessages(step) :
            IF Caught(step)
            THEN grade' = [grade EXCEPT
                     !.results = Append(@,
                         [ input |-> testCase.input,
                           expectedOutput |-> testCase.expectedOutput,
                           actualOutput |-> <<"Execution Failed">>,
                           isCorrect |-> FALSE,
                           error |-> catchMessage(message) ]),
                     !.outcomes = Append(@, "threw"),
                     !.pc = "delay"]
            ELSE grade' = [grade EXCEPT !.pc = "threw"]
    /\ UNCHANGED <<state, dispatched, isSubmitting, calls, runs, log, exam, monitor>>

\* await delay(500)
Delay ==
    /\ grade.pc = "delay"
    /\ grade' = NextCase([grade EXCEPT !.trace = Append(@, "delay")])
    /\ UNCHANGED <<state, dispatched, isSubmitting, calls, runs, log, exam, monitor>>

\* return { results, totalPassed, totalCases: input.testCases.length }
Return ==
    /\ grade.pc = "return"
    /\ grade' = [grade EXCEPT !.pc = "done",
                    !.output = [ results |-> grade.results,
                                 totalPassed |-> grade.totalPassed,
                                 totalCases |-> Len(grade.testCases) ]]
    /\ UNCHANGED <<state, dispatched, isSubmitting, calls, runs, log, exam, monitor>>

TestCaseLists == UNION {[1..n -> TestCases] : n \in 1..MaxTestCases}

\* input.testCases: a list of test cases, an empty list, or absent
GradeInputs ==
    {[given |-> TRUE, testCases |-> testCases] : testCases \in TestCaseLists \cup {<<>>}}
        \cup {[given |-> FALSE, testCases |-> <<>>]}

InitGrade ==
    /\ exam = [n |-> 0, seconds |-> 0, cases |-> <<>>,
               hasMinimumTime |-> FALSE, minimumSeconds |-> 0]
    /\ state = initialState(0, 0)
    /\ dispatched = <<>>
    /\ isSubmitting = FALSE
    /\ calls = <<>>
    /\ runs = {}
    /\ log = [invocations |-> 0, overlapping |-> 0, writes |-> <<>>,
              finishes |-> 0, events |-> 0, effects |-> <<>>,
              budget |-> MaxUserEvents, resolved |-> NoneResolved]
    /\ monitor = [isFullscreen |-> FALSE, isPageVisible |-> TRUE,
                  counting |-> FALSE, countdown |-> 0, exitCount |-> 0]
    /\ \E input \in GradeInputs :
         grade = [ pc |-> "start", given |-> input.given,
                   testCases |-> input.testCases, i |-> 1,
                   results |-> <<>>, totalPassed |-> 0,
                   trace |-> <<>>, stdins |-> <<>>, outcomes |-> <<>>,
                   rawOutcome |-> "", rawSent |-> <<>>,
                   output |-> [results |-> <<>>] ]

NextGrade ==
    \/ Begin
    \/ RawNotOk
    \/ RawOk
    \/ RawThrows
    \/ ResponseNotOk
    \/ ResponseOk
    \/ RequestThrows
    \/ Delay
    \/ Return

SpecGrade == InitGrade /\ [][NextGrade]_vars

----------------------------------------------------------------------------
(* The score of a submission, on its own *)

\* The marks an answer can carry: (totalPassed / totalCases) * 100 with up to
\* two test cases, or 0
Marks == {0, 50, 100}

MarkLists == UNION {[1..n -> Marks] : n \in 0..MaxAnswers}

\* autoSubmitDetails?: { autoSubmitted: boolean; exitCount: number }, the
\* argument left out or given
SubmitArguments ==
    {[given |-> FALSE, autoSubmitted |-> FALSE, exitCount |-> 0]} \cup
    {[given |-> TRUE, autoSubmitted |-> a, exitCount |-> e] :
        a \in BOOLEAN, e \in 0..MaxExitCount}

\* studentAnswers after the loop of handleSubmitExam
InitScore ==
    /\ exam = [n |-> 0, seconds |-> 0, cases |-> <<>>,
               hasMinimumTime |-> FALSE, minimumSeconds |-> 0]
    /\ state = initialState(0, 0)
    /\ dispatched = <<>>
    /\ isSubmitting = FALSE
    /\ calls = <<>>
    /\ runs = {}
    /\ log = [invocations |-> 0, overlapping |-> 0, writes |-> <<>>,
              finishes |-> 0, events |-> 0, effects |-> <<>>,
              budget |-> MaxUserEvents, resolved |-> NoneResolved]
    /\ monitor = [isFullscreen |-> FALSE, isPageVisible |-> TRUE,
                  counting |-> FALSE, countdown |-> 0, exitCount |-> 0]
    /\ \E marks \in MarkLists :
         \E details \in SubmitArguments :
            grade = [ pc |-> "reduce",
                      details |-> details,
                      studentAnswers |-> [i \in 1..Len(marks) |-> [marks |-> marks[i]]],
                      payload |-> [status |-> Undefined] ]

\* const totalMarks = ...; const finalScore = ...; const submissionPayload = ...
ComputeScore ==
    /\ grade.pc = "reduce"
    /\ grade' = [grade EXCEPT !.pc = "scored", !.payload = submissionPayload(grade)]
    /\ UNCHANGED <<state, dispatched, isSubmitting, calls, runs, log, exam, monitor>>

NextScore == ComputeScore

SpecScore == InitScore /\ [][NextScore]_vars

----------------------------------------------------------------------------
(* The studentExams collection under the final writes *)

Users == {"u1", "u2"}
ExamIds == {"e1", "e2"}
Scores == {0, 100}

\* setDoc(ref, data, { merge: true }) on a collection kept as the set of its
\* documents: the fields of data replace those of the document with that id,
\* which is created when absent
SetDocMerge(docs, id, data) ==
    LET old == {d \in docs : d.id = id}
        merged == IF old = {} THEN data ELSE data @@ (CHOOSE d \in old : TRUE)
    IN  (docs \ old) \cup {[id |-> id] @@ merged}

\* doc(firestore, 'studentExams', `${user.uid}_${examId}`)
studentExamDocRef(uid, examId) == <<uid, "_", examId>>

\* A variant that adds a document with a generated id for every submission
WriteSubmissionAsNewDocument(docs, uid, examId, payload) ==
    docs \cup {[id |-> <<"auto", ToString(Cardinality(docs))>>] @@ payload}

\* setDocumentNonBlocking(studentExamDocRef, submissionPayload, { merge: true })
WriteSubmission(docs, uid, examId, payload) ==
    SetDocMerge(docs, studentExamDocRef(uid, examId), payload)

InitStore ==
    /\ exam = [n |-> 0, seconds |-> 0, cases |-> <<>>,
               hasMinimumTime |-> FALSE, minimumSeconds |-> 0]
    /\ state = initialState(0, 0)
    /\ dispatched = <<>>
    /\ isSubmitting = FALSE
    /\ calls = <<>>
    /\ runs = {}
    /\ log = [invocations |-> 0, overlapping |-> 0, writes |-> <<>>,
              finishes |-> 0, events |-> 0, effects |-> <<>>,
              budget |-> MaxUserEvents, resolved |-> NoneResolved]
    /\ monitor = [isFullscreen |-> FALSE, isPageVisible |-> TRUE,
                  counting |-> FALSE, countdown |-> 0, exitCount |-> 0]
    /\ grade = [pc |-> "store", docs |-> {}, submitted |-> <<>>]

\* One handleSubmitExam reaches its write, for some student and exam
SubmissionWritten ==
    /\ grade.pc = "store"
    /\ Len(grade.submitted) < MaxSubmits
    /\ \E uid \in Users, examId \in ExamIds, score \in Scores :
         LET payload == [studentId |-> uid, examId |-> examId, score |-> score]
         IN  grade' = [grade EXCEPT
                 !.docs = WriteSubmission(@, uid, examId, payload),
                 !.submitted = Append(@, payload)]
    /\ UNCHANGED <<state, dispatched, isSubmitting, calls, runs, log, exam, monitor>>

NextStore == SubmissionWritten

SpecStore == InitStore /\ [][NextStore]_vars

----------------------------------------------------------------------------
(* Properties *)

\* The last step dispatched exactly the one action `type`
Did(type) == Len(dispatched) = 1 /\ dispatched[1].type = type

\* C1: a handleSubmitExam invocation made while another one is waiting on its
\* grading is a no-op: at most one invocation is ever in flight, at most one
\* SubmissionRecord write and one FINISH_EXAM are issued, and once the
\* invocation that was overlapped has finished exactly one of each was issued.
C1_SingleFlightSubmit ==
    /\ Len(calls) <= 1
    /\ Len(log.writes) <= 1
    /\ log.finishes <= 1
    /\ (log.overlapping > 0 /\ calls = <<>>) =>
           (Len(log.writes) = 1 /\ log.finishes = 1)

C1_Witness ==
    /\ log.overlapping > 0
    /\ log.invocations >= 2
    /\ calls = <<>>
    /\ Len(log.writes) = 1

\* C2 (as claimed): when a TICK_TIMER brings timeLeft to zero in a started
\* attempt and no submission is in flight, a SubmissionRecord is eventually
\* written.
C2_TimerZeroAutoSubmits ==
    (Did("TICK_TIMER") /\ state.examStarted /\ state.timeLeft = 0 /\ ~isSubmitting)
        ~> (Len(log.writes) >= 1)

\* The countdown of the monitor and the exam timer both expire at their next
\* tick, and nothing has been submitted yet
RacePending ==
    /\ Running
    /\ monitor.counting /\ monitor.countdown <= 1
    /\ state.timeLeft <= 1
    /\ ~isSubmitting

\* C3 (as claimed): when the proctoring countdown and the exam timer expire in
\* the same tick, exactly one SubmissionRecord is produced: never two, and
\* eventually one unless the student is back in secure mode before that tick.
C3_RaceYieldsOneRecord ==
    /\ [](Len(log.writes) <= 1)
    /\ (RacePending ~> (Len(log.writes) = 1 \/ IsSecure))

C5_IndexClamped ==
    state.currentQuestionIndex \in 0..(state.totalQuestions - 1)

\* C6 (as claimed): after START_EXAM and any next, prev and jump-to events the
\* question at currentQuestionIndex never has status not-visited.
C6_CurrentQuestionVisited ==
    state.examStarted => MapGet(state.statuses, currentQuestion) # "not-visited"

\* C7: TOGGLE_MARK_FOR_REVIEW applied twice in a row to a question whose
\* status is answered or not-answered leaves that status as it was.
C7_ToggleTwiceRestores ==
    [][Len(dispatched') = 2 =>
          LET q == dispatched'[1].target
          IN  MapGet(state.statuses, q) \in {"answered", "not-answered"} =>
                  MapGet(state'.statuses, q) = MapGet(state.statuses, q)]_vars

C7_Witness ==
    /\ Len(dispatched) = 2
    /\ dispatched[1].type = "TOGGLE_MARK_FOR_REVIEW"
    /\ MapGet(state.statuses, dispatched[1].target) = "answered"
    /\ state.answers[dispatched[1].target] = ""

\* C8: a TICK_TIMER applied at timeLeft = 1 yields timeLeft = 0 and
\* examFinished, and no TICK_TIMER is dispatched once examFinished is true.
C8_TickIsTerminal ==
    [][Did("TICK_TIMER")' =>
          /\ ~state.examFinished
          /\ state.timeLeft = 1 => (state'.timeLeft = 0 /\ state'.examFinished)]_vars

C8_Witness ==
    /\ Did("TICK_TIMER")
    /\ exam.seconds = 1
    /\ state.timeLeft = 0
    /\ state.examFinished

\* The test cases whose request the history records with outcome `kind`
CasesWith(kinds) == {i \in 1..Len(grade.outcomes) : grade.outcomes[i] \in kinds}

\* C9: a test case whose request throws or is answered with a response that
\* is not ok is recorded with isCorrect = false and a non-empty error, and the
\* call still executes every test case: it returns one result per case, and
\* totalPassed counts the cases the sandbox answered correctly (2 of 3 when
\* one of three throws and the other two are correct).
C9_FailedCaseDoesNotAbort ==
    /\ \A i \in CasesWith({"threw", "not ok"}) :
           /\ grade.results[i].isCorrect = FALSE
           /\ grade.results[i].error \notin {<<>>, UndefinedStr}
    /\ grade.pc = "done" =>
           /\ Len(grade.outcomes) = Len(grade.testCases)
           /\ Len(grade.output.results) = Len(grade.testCases)
           /\ grade.output.totalCases = Len(grade.testCases)
           /\ grade.output.totalPassed =
                  Cardinality({i \in CasesWith({"ok"}) :
                      grade.results[i].actualOutput
                          = Trim(grade.testCases[i].expectedOutput)})

C9_Witness ==
    /\ grade.pc = "done"
    /\ Len(grade.testCases) = 3
    /\ grade.outcomes = <<"ok", "threw", "ok">>
    /\ grade.output.totalPassed = 2
    /\ grade.output.totalCases = 3
    /\ grade.output.results[2].isCorrect = FALSE

\* C10: the result of a call with n >= 1 test cases holds one entry per test
\* case in input order, totalCases = n, and totalPassed is the number of
\* entries with isCorrect = true.
C10_OneEntryPerCase ==
    (grade.pc = "done" /\ Len(grade.testCases) >= 1) =>
        /\ Len(grade.output.results) = Len(grade.testCases)
        /\ \A i \in 1..Len(grade.testCases) :
               /\ grade.output.results[i].input = grade.testCases[i].input
               /\ grade.output.results[i].expectedOutput
                      = grade.testCases[i].expectedOutput
        /\ grade.output.totalCases = Len(grade.testCases)
        /\ grade.output.totalPassed =
               Cardinality({i \in 1..Len(grade.output.results) :
                               grade.output.results[i].isCorrect})

C10_Witness ==
    /\ grade.pc = "done"
    /\ Len(grade.testCases) = 3
    /\ grade.testCases[1] # grade.testCases[2]
    /\ grade.output.totalPassed = 2
    /\ ~grade.output.results[3].isCorrect

----------------------------------------------------------------------------
(* The SubmissionRecord *)

\* The k-th answer of a written record went through the grading call
Graded(a) == "totalCases" \in DOMAIN a

MarksUpTo(answers, k) ==
    LET sum[i \in 0..k] == IF i = 0 THEN 0 ELSE sum[i - 1] + answers[i].marks
    IN  sum[k]

\* C12: the score computed from the answers is the arithmetic mean of their
\* marks over all of them, and 0 when there is none; marks 100 and 50 give 75.
C12_ScoreIsMean ==
    grade.pc = "scored" =>
        LET n == Len(grade.studentAnswers)
            score == grade.payload.score
        IN  /\ score.den > 0
            /\ n = 0 => score.num = 0
            /\ n > 0 => score.num * n = MarksUpTo(grade.studentAnswers, n) * score.den
            /\ grade.studentAnswers = <<[marks |-> 100], [marks |-> 50]>> =>
                   score.num = 75 * score.den

C12_Witness ==
    /\ grade.pc = "scored"
    /\ grade.studentAnswers = <<[marks |-> 100], [marks |-> 50]>>
    /\ grade.payload.score.num = 75 * grade.payload.score.den

\* C13: every written record holds exactly one answer per question of the
\* exam, in the order of shuffledQuestions; a question whose grading call
\* threw has mark 0 and a non-empty error string, and the questions after it
\* are in the record all the same.
C13_OneAnswerPerQuestion ==
    \A w \in 1..Len(log.writes) :
        LET answers == log.writes[w].answers
        IN  /\ Len(answers) = exam.n
            /\ \A k \in 1..Len(answers) :
                 LET a == answers[k]
                 IN  /\ a.questionId = state.statuses[k].key
                     /\ "error" \in DOMAIN a => a.marks = 0 /\ a.error # ""
                     /\ (a.sourceCode # "" /\ exam.cases[k] > 0 /\ ~Graded(a)) =>
                            "error" \in DOMAIN a

\* A record of a two-question exam whose first question's grading threw
C13_Witness ==
    \E w \in 1..Len(log.writes) :
        LET answers == log.writes[w].answers
        IN  /\ exam.n = 2
            /\ Len(answers) = 2
            /\ "error" \in DOMAIN answers[1]
            /\ answers[1].marks = 0
            /\ answers[2].questionId = state.statuses[2].key

\* C14: the status of the record built by handleSubmitExam is 'suspicious'
\* when the handler was given autoSubmit details (whatever they hold) and
\* 'graded' when it was given none.
C14_StatusFollowsDetails ==
    grade.pc = "scored" =>
        /\ grade.details.given => grade.payload.status = "suspicious"
        /\ ~grade.details.given => grade.payload.status = "graded"

\* A record built from details whose autoSubmitted is false: still 'suspicious'
C14_Witness ==
    /\ grade.pc = "scored"
    /\ grade.details.given /\ ~grade.details.autoSubmitted
    /\ grade.payload.status = "suspicious"

\* The last step attempted the write of the SubmissionRecord and it failed
WriteFailed ==
    /\ Len(log'.writes) = Len(log.writes) + 1
    /\ log'.writes[Len(log'.writes)].outcome # "ok"

\* C15 (as claimed): a step in which the final write fails resets isSubmitting
\* to false, dispatches no FINISH_EXAM and leaves the session not finished.
C15_FailedWriteAllowsRetry ==
    [][WriteFailed =>
          /\ isSubmitting' = FALSE
          /\ ~state'.examFinished
          /\ \A i \in 1..Len(dispatched') : dispatched'[i].type # "FINISH_EXAM"]_vars

\* C16: when a SubmissionRecord of the student for the exam exists at load,
\* the session is never entered: the exam is never started, no answer is
\* stored, no Run and no submission is ever invoked and nothing is written.
C16_PriorRecordBlocksEntry ==
    exam.studentExamData =>
        /\ ~state.examStarted /\ ~state.examFinished
        /\ state.answers = EmptyMap
        /\ runs = {}
        /\ calls = <<>> /\ ~isSubmitting
        /\ log.invocations = 0
        /\ log.writes = <<>>

\* A loaded session that found an earlier record
C16_Witness ==
    /\ exam.studentExamData
    /\ ~state.examStarted
    /\ state.totalQuestions = exam.n
    /\ log.writes = <<>>

----------------------------------------------------------------------------
(* The grading flow as a whole *)

\* The value is a GradingResult: results, totalCases and totalPassed are there
IsGradingResult(output) == {"results", "totalCases", "totalPassed"} \subseteq DOMAIN output

\* C17: whatever the sandbox does (ok response, response that is not ok,
\* rejected request, body that cannot be read, body without a run field), no
\* exception leaves executeCodeFlow: a finished call has returned a
\* GradingResult, and a failure of the single request of a call without test
\* cases is in its rawError.
C17_NeverThrows ==
    /\ grade.pc # "threw"
    /\ grade.pc = "done" =>
           /\ IsGradingResult(grade.output)
           /\ grade.rawOutcome \in {"threw", "not ok"} =>
                  grade.output.rawError \notin {<<>>, UndefinedStr}

\* A finished call one of whose responses had no run field
C17_Witness ==
    /\ grade.pc = "done"
    /\ \E i \in 1..Len(grade.output.results) :
           /\ grade.outcomes[i] = "threw"
           /\ grade.output.results[i].error = <<"Cannot read properties of undefined">>

\* str with its leading and trailing white space removed, said without Trim:
\* a slice of str whose ends are not white space, all the rest being white space
IsTrimOf(trimmed, str) ==
    \E a \in 1..(Len(str) + 1) : \E b \in 0..Len(str) :
        /\ trimmed = SubSeq(str, a, b)
        /\ \A i \in 1..Len(str) : (i < a \/ i > b) => IsSpace(str[i])
        /\ a <= b => ~IsSpace(str[a]) /\ ~IsSpace(str[b])
        /\ a > b => a = b + 1

\* C18: a call whose testCases are absent or empty sends exactly one request,
\* with empty standard input, and returns totalCases = 0, totalPassed = 0 and
\* no per-case result, with the trimmed output of the run when the request
\* succeeded and a non-empty error string when it did not.
C18_NoTestCasesSingleRequest ==
    (~grade.given \/ Len(grade.testCases) = 0) =>
        /\ Len(grade.trace) <= 1
        /\ grade.pc = "done" =>
             /\ grade.trace = <<"fetch">>
             /\ grade.stdins = << <<>> >>
             /\ grade.output.results = <<>>
             /\ grade.output.totalCases = 0
             /\ grade.output.totalPassed = 0
             /\ grade.rawOutcome = "ok" =>
                    IsTrimOf(grade.output.rawOutput, grade.rawSent)
             /\ grade.rawOutcome # "ok" =>
                    /\ "rawOutput" \notin DOMAIN grade.output
                    /\ grade.output.rawError \notin {<<>>, UndefinedStr}

\* A call with an empty list of test cases that returned the trimmed output
C18_Witness ==
    /\ grade.given /\ grade.testCases = <<>>
    /\ grade.pc = "done"
    /\ grade.rawOutcome = "ok"
    /\ grade.rawSent = <<" ", "4", "\n">>
    /\ grade.output.rawOutput = <<"4">>
    /\ grade.output.totalCases = 0

\* C19 (as claimed): within one call, the delay step lies between every two
\* consecutive requests, whatever the outcome of the earlier one: the trace of
\* the call never holds two requests in a row.
C19_DelayBetweenRequests ==
    \A i \in 1..(Len(grade.trace) - 1) :
        ~(grade.trace[i] = "fetch" /\ grade.trace[i + 1] = "fetch")

----------------------------------------------------------------------------
(* The proctoring countdown *)

\* The step made a handleSubmitExam invocation that passed its guard, and the
\* details it was given say autoSubmitted
StartedAutoSubmission ==
    IF Len(calls') > Len(calls)
    THEN calls'[Len(calls')].details.autoSubmitted
    ELSE /\ Len(log'.writes) = Len(log.writes) + 1
         /\ log'.writes[Len(log'.writes)].autoSubmitted

\* C20: while the attempt is running, a step from secure to insecure starts
\* the countdown; the step in which the countdown reaches zero with the session
\* still insecure invokes the submission with autoSubmitted = true; a step
\* back to secure cancels the countdown and invokes nothing, and no countdown
\* runs while the session is secure.
C20_CountdownAutoSubmits ==
    [][/\ (Running /\ IsSecure /\ ~IsSecure') =>
              (monitor'.counting /\ monitor'.countdown = CountdownSeconds)
       /\ (monitor.counting /\ ~monitor'.counting /\ ~IsSecure') =>
              /\ monitor.countdown = 1
              /\ log'.invocations = log.invocations + 1
              /\ ~isSubmitting => StartedAutoSubmission
       /\ (~IsSecure /\ IsSecure') =>
              /\ ~monitor'.counting
              /\ log'.invocations = log.invocations
       /\ IsSecure' => ~monitor'.counting]_vars

\* The countdown ran out on an insecure session and the record it submitted
\* was written
C20_Witness ==
    /\ exam.seconds > 0
    /\ state.examStarted /\ ~IsSecure
    /\ ~monitor.counting /\ monitor.countdown = 0 /\ monitor.exitCount >= 1
    /\ Len(log.writes) = 1
    /\ log.writes[1].autoSubmitted /\ log.writes[1].exitCount = monitor.exitCount

----------------------------------------------------------------------------
(* The session state under the events of an attempt *)

\* The step dispatched an action of this type
Dispatches(type) == \E i \in 1..Len(dispatched') : dispatched'[i].type = type

\* C21: from a state in which the attempt is running, no step raises timeLeft,
\* and a step that dispatches TICK_TIMER lowers it by exactly 1.
C21_TimeLeftNeverIncreases ==
    [][Running =>
          /\ state'.timeLeft <= state.timeLeft
          /\ Dispatches("TICK_TIMER") => state'.timeLeft = state.timeLeft - 1]_vars

\* The timer has just ticked in an attempt that is still running
C21_Witness ==
    /\ Running
    /\ Did("TICK_TIMER")
    /\ state.timeLeft = exam.seconds - 1
    /\ state.timeLeft > 0

----------------------------------------------------------------------------
(* The stored SubmissionRecords *)

\* The documents of the collection that belong to the pair
RecordsOf(uid, examId) == {d \in grade.docs : d.studentId = uid /\ d.examId = examId}

\* The submissions written so far for the pair, in order
WritesOf(uid, examId) ==
    SelectSeq(grade.submitted, LAMBDA w : w.studentId = uid /\ w.examId = examId)

\* C22: after any number of submissions, the collection holds at most one
\* SubmissionRecord per (studentId, examId): none while the pair has not
\* submitted, and otherwise the one document with the fields of the pair's
\* last write.
C22_OneRecordPerPair ==
    \A uid \in Users, examId \in ExamIds :
        LET writes == WritesOf(uid, examId)
            records == RecordsOf(uid, examId)
        IN  /\ Cardinality(records) <= 1
            /\ writes = <<>> => records = {}
            /\ writes # <<>> =>
                   \E d \in records : d.score = writes[Len(writes)].score

\* A pair has submitted twice with different scores and has one record
C22_Witness ==
    \E uid \in Users, examId \in ExamIds :
        /\ Len(WritesOf(uid, examId)) >= 2
        /\ WritesOf(uid, examId)[1].score # WritesOf(uid, examId)[2].score
        /\ Cardinality(RecordsOf(uid, examId)) = 1
        /\ Cardinality(grade.docs) >= 2

----------------------------------------------------------------------------

\* C23: in every invocation of the submit loop at most one executeCode call is
\* in flight, and it is the call for the first question that has no entry yet:
\* every question before it in the question order has been processed.
C23_GradingIsSequential ==
    \A i \in 1..Len(calls) :
        /\ Cardinality(calls[i].inFlight) <= 1
        /\ \A j \in calls[i].inFlight :
               /\ Len(calls[i].studentAnswers) = j - 1
               /\ NeedsGrading(calls[i].snap, j)

\* The second question is being graded after the grading of the first returned
C23_Witness ==
    \E i \in 1..Len(calls) :
        /\ calls[i].inFlight = {2}
        /\ NeedsGrading(calls[i].snap, 1)
        /\ Len(calls[i].studentAnswers) = 1
        /\ calls[i].studentAnswers[1].marks > 0

\* C24: every write carries an entry for every question, and in the order of
\* the effects of the submits each finish and each redirect comes after the
\* write of its submit; the exam is not finished by a submit before a write.
C24_WriteThenFinish ==
    /\ \A w \in 1..Len(log.writes) : Len(log.writes[w].answers) = exam.n
    /\ \A e \in 1..Len(log.effects) :
           /\ log.effects[e] = "finish" => e > 1 /\ log.effects[e - 1] = "write"
           /\ log.effects[e] = "redirect" => e > 2 /\ log.effects[e - 2] = "write"
    /\ log.finishes <= Len(log.writes)
    /\ \A i \in 1..Len(calls) : Len(calls[i].studentAnswers) < exam.n

\* A submit that graded a question has written, finished and redirected
C24_Witness ==
    /\ log.effects = <<"write", "finish", "redirect">>
    /\ state.examFinished
    /\ \E a \in 1..exam.n : log.writes[1].answers[a].marks > 0

----------------------------------------------------------------------------

\* The fields of State other than isExecuting and executionResults
Frame(s) ==
    <<s.statuses, s.answers, s.currentQuestionIndex, s.timeLeft, s.examStarted,
      s.examFinished, s.totalQuestions>>

\* The last step dispatched only actions of the types in `types`, at least one
OnlyDispatches(types) ==
    /\ dispatched' # <<>>
    /\ \A i \in 1..Len(dispatched') : dispatched'[i].type \in types

\* C25: a step that dispatches only SET_EXECUTING and SET_EXECUTION_RESULT for
\* question q leaves statuses, answers, currentQuestionIndex, timeLeft,
\* examStarted and examFinished unchanged, changes isExecuting and
\* executionResults at q alone, and changes executionResults only if it
\* dispatched SET_EXECUTION_RESULT.
C25_ExecutionEventsFrame ==
    [][OnlyDispatches({"SET_EXECUTING", "SET_EXECUTION_RESULT"}) =>
          LET q == dispatched'[1].target
          IN  /\ Frame(state') = Frame(state)
              /\ \A i \in 1..Len(dispatched') : dispatched'[i].target = q
              /\ \A o \in AllIds \ {q} :
                     /\ state'.isExecuting[o] = state.isExecuting[o]
                     /\ state'.executionResults[o] = state.executionResults[o]
              /\ state'.isExecuting[q] \in {"true", "false"}
              /\ ~Dispatches("SET_EXECUTION_RESULT") =>
                     state'.executionResults = state.executionResults
              /\ Dispatches("SET_EXECUTION_RESULT") =>
                     state'.executionResults[q] \in RunResults]_vars

\* A run has returned: its result is stored and the flag is lowered, in a
\* session whose question has an answer
C25_Witness ==
    /\ Len(dispatched) = 2
    /\ dispatched[1].type = "SET_EXECUTION_RESULT"
    /\ dispatched[2].type = "SET_EXECUTING"
    /\ state.executionResults[dispatched[1].target] \in RunResults
    /\ state.isExecuting[dispatched[1].target] = "false"
    /\ state.answers[dispatched[1].target] = "code"

----------------------------------------------------------------------------

\* The last step dispatched exactly one action, of type `type`
DispatchesOne(type) == Len(dispatched') = 1 /\ dispatched'[1].type = type

\* The statuses and answers of the questions other than q are unchanged
OthersKept(q) ==
    /\ \A o \in Keys(state) \ {q} : MapGet(state'.statuses, o) = MapGet(state.statuses, o)
    /\ \A o \in AllIds \ {q} : state'.answers[o] = state.answers[o]

\* C26: ANSWER for question q stores a source code as its answer and
\* CLEAR_ANSWER stores null; the status of q becomes 'answered', respectively
\* 'not-answered', unless it is 'marked-for-review', which it then stays.
\* Nothing changes for the other questions.
C26_AnswerAndClearStatus ==
    [][/\ DispatchesOne("ANSWER") =>
             LET q == dispatched'[1].target
             IN  /\ state'.answers[q] \in SourceCodes
                 /\ MapGet(state'.statuses, q) =
                        IF MapGet(state.statuses, q) = "marked-for-review"
                        THEN "marked-for-review" ELSE "answered"
                 /\ OthersKept(q)
       /\ DispatchesOne("CLEAR_ANSWER") =>
             LET q == dispatched'[1].target
             IN  /\ state'.answers[q] = Null
                 /\ MapGet(state'.statuses, q) =
                        IF MapGet(state.statuses, q) = "marked-for-review"
                        THEN "marked-for-review" ELSE "not-answered"
                 /\ OthersKept(q)]_vars

\* A question marked for review has just been answered: it has the code and
\* is still marked for review
C26_Witness ==
    /\ Did("ANSWER")
    /\ MapGet(state.statuses, dispatched[1].target) = "marked-for-review"
    /\ state.answers[dispatched[1].target] = "code"

----------------------------------------------------------------------------

\* The step is a click on Run Code: a user event that is not a navigation
RunClicked ==
    /\ log'.events = log.events + 1
    /\ ~Dispatches("NEXT_QUESTION")
    /\ ~Dispatches("PREV_QUESTION")

\* The current question has no source code, or the exam has no language
NothingToRun ==
    \/ KeyedGet(state.answers, currentQuestion) \in {Undefined, Null, ""}
    \/ ~exam.language

\* C27: a click on Run for a question with no source code, or in an exam with
\* no language, sends no execution request and dispatches nothing: the session
\* state is unchanged. A step that sends an execution request is a click on a
\* question that has source code, in an exam that has a language.
C27_RunRejected ==
    [][/\ (RunClicked /\ NothingToRun) =>
             /\ state' = state
             /\ runs' = runs
             /\ dispatched' = <<>>
       /\ (runs' \ runs # {}) => (RunClicked /\ ~NothingToRun)]_vars

\* Run has been clicked in an exam with no language on a question with code:
\* nothing was dispatched and nothing is running
C27_Witness ==
    /\ ~exam.language
    /\ state.answers[currentQuestion] = "code"
    /\ log.events = 1
    /\ dispatched = <<>>
    /\ runs = {}
    /\ state.currentQuestionIndex = exam.n - 1

----------------------------------------------------------------------------

\* C28: executionResults holds, for every question, the result of the run of
\* that question that returned last, and nothing for a question none of whose
\* runs has returned: a run stores its result over an earlier one and never
\* touches the result of another question.
C28_LastResolvedRunWins ==
    \A q \in AllIds :
        LET results == log.resolved[q]
        IN  IF results = <<>>
            THEN state.executionResults[q] = Undefined
            ELSE state.executionResults[q] = results[Len(results)]

\* A question was run twice with different results while another question
\* keeps the result of its own run
C28_Witness ==
    \E q \in AllIds, o \in AllIds :
        /\ q # o
        /\ Len(log.resolved[q]) = 2
        /\ log.resolved[q][1] # log.resolved[q][2]
        /\ Len(log.resolved[o]) = 1
        /\ log.resolved[o][1] # log.resolved[q][2]

----------------------------------------------------------------------------

\* The step invoked handleSubmitExam from the auto-submit effect or from the
\* countdown of the monitor: End Exam is offered in neither situation
AutoSubmitTriggered ==
    /\ log'.invocations = log.invocations + 1
    /\ EffectPending \/ monitor.counting

\* The details of the invocation the step started
StartedDetails ==
    IF Len(calls') > Len(calls)
    THEN calls'[Len(calls')].details
    ELSE [given |-> log'.writes[Len(log'.writes)].given,
          autoSubmitted |-> log'.writes[Len(log'.writes)].autoSubmitted,
          exitCount |-> log'.writes[Len(log'.writes)].exitCount]

\* C29: an auto-submission that passes the guard of handleSubmitExam carries
\* autoSubmitted = true and the exit count the monitor had persisted when it
\* was triggered, 0 if the counter was never written.
C29_AutoSubmitCarriesExitCount ==
    [][(AutoSubmitTriggered /\ ~isSubmitting) =>
          /\ StartedDetails.given
          /\ StartedDetails.autoSubmitted
          /\ StartedDetails.exitCount = monitor.exitCount
          /\ fullscreenExitCountItem = <<>> => StartedDetails.exitCount = 0]_vars

\* The record of an auto-submission has been written with the count of an
\* exit that happened during the attempt
C29_Witness ==
    /\ Len(log.writes) = 1
    /\ log.writes[1].autoSubmitted
    /\ log.writes[1].exitCount = 1
    /\ fullscreenExitCountItem = <<"1">>
    /\ state.examFinished

----------------------------------------------------------------------------

\* Array.from(s.statuses.keys()): the question ids in display order
StatusKeys(s) == [i \in 1..Len(s.statuses) |-> s.statuses[i].key]

\* The entries a submit has pushed so far are those of the first questions in
\* display order, in that order
InDisplayOrder(answers) ==
    /\ Len(answers) <= Len(state.statuses)
    /\ \A k \in 1..Len(answers) : answers[k].questionId = state.statuses[k].key

\* Every submit, running or written, has taken the questions in display order
SubmitOrder ==
    /\ \A i \in 1..Len(calls) : InDisplayOrder(calls[i].studentAnswers)
    /\ \A w \in 1..Len(log.writes) :
           /\ InDisplayOrder(log.writes[w].answers)
           /\ Len(log.writes[w].answers) = Len(state.statuses)

\* C30: the question ids of statuses and their order are those of the
\* initialization: no step of a started attempt adds, removes or reorders
\* them, and every submit takes the questions in that same order.
C30_DisplayOrderFixed ==
    [][/\ state.examStarted => StatusKeys(state') = StatusKeys(state)
       /\ StatusKeys(state') = StatusKeys(initialState(exam.n, exam.seconds))
       /\ SubmitOrder']_vars

\* The second question was answered and a record with its code, in second
\* place, has been written
C30_Witness ==
    /\ exam.n = 2
    /\ state.statuses[2].val = "answered"
    /\ state.statuses[1].val = "not-answered"
    /\ Len(log.writes) = 1
    /\ log.writes[1].answers[2].questionId = state.statuses[2].key
    /\ log.writes[1].answers[2].sourceCode = "code"

----------------------------------------------------------------------------

\* timeLeft is never negative, and it is 0 once the exam is finished
ClockConsistent(s) ==
    /\ s.timeLeft >= 0
    /\ s.examFinished => s.timeLeft = 0

\* C31: in every state timeLeft >= 0, and examFinished implies timeLeft = 0;
\* a step that dispatches FINISH_EXAM, or TICK_TIMER with at most one second
\* left, leaves examFinished set and timeLeft at 0 whatever timeLeft was.
C31_FinishedMeansNoTimeLeft ==
    [][/\ ClockConsistent(state) /\ ClockConsistent(state')
       /\ Dispatches("FINISH_EXAM") =>
             (state'.examFinished /\ state'.timeLeft = 0)
       /\ (Dispatches("TICK_TIMER") /\ state.timeLeft <= 1) =>
             (state'.examFinished /\ state'.timeLeft = 0)]_vars

\* A submission the student made by hand has finished the exam: FINISH_EXAM
\* set timeLeft to 0
C31_Witness ==
    /\ Did("FINISH_EXAM")
    /\ exam.seconds > 0
    /\ Len(log.writes) = 1 /\ ~log.writes[1].autoSubmitted
    /\ state.examFinished /\ state.timeLeft = 0

----------------------------------------------------------------------------

\* C32: for every question, status 'answered' implies that a non-null answer
\* is stored for it, and status 'not-answered' or 'not-visited' implies that
\* none is: its answer is absent or null.
C32_StatusMatchesAnswer ==
    \A i \in 1..Len(state.statuses) :
        LET q == state.statuses[i].key
            stored == state.answers[q] \notin {Null, Undefined}
        IN  /\ state.statuses[i].val = "answered" => stored
            /\ state.statuses[i].val \in {"not-answered", "not-visited"} => ~stored

\* One question is answered with the empty code and another one, cleared, is
\* not-answered with a null answer
C32_Witness ==
    \E i \in 1..Len(state.statuses), j \in 1..Len(state.statuses) :
        /\ state.statuses[i].val = "answered"
        /\ state.answers[state.statuses[i].key] = ""
        /\ state.statuses[j].val = "not-answered"
        /\ state.answers[state.statuses[j].key] = Null

----------------------------------------------------------------------------

\* C33 (as claimed): every record written by a submission made through the
\* End Exam confirmation has autoSubmitted = false and status 'graded', and
\* only a record of an auto-submission has status 'suspicious'.
C33_ManualSubmissionIsGraded ==
    \A w \in 1..Len(log.writes) :
        /\ ~log.writes[w].autoSubmitted => log.writes[w].status = "graded"
        /\ log.writes[w].status = "suspicious" => log.writes[w].autoSubmitted

----------------------------------------------------------------------------

\* The step invoked handleSubmitExam from the End Exam dialog
ManualSubmitInvoked ==
    /\ log'.invocations = log.invocations + 1
    /\ ~AutoSubmitTriggered

\* duration * 60 - timeLeft has reached the minimum time: minimumTime * 60, or
\* half of duration * 60 when minimumTime is unset
MinimumTimeReached ==
    LET elapsed == exam.seconds - state.timeLeft
    IN  IF exam.hasMinimumTime THEN elapsed >= exam.minimumSeconds
        ELSE 2 * elapsed >= exam.seconds

\* C34: a step in which the student submits through End Exam is taken with the
\* minimum time reached and with no submission in flight; a step in which the
\* timer or the monitor submits starts its submission whether or not the
\* minimum time is reached, unless one is in flight.
C34_ManualSubmitAfterMinimumTime ==
    [][/\ ManualSubmitInvoked =>
             /\ MinimumTimeReached
             /\ ~isSubmitting
             /\ calls = <<>>
       /\ (AutoSubmitTriggered /\ ~isSubmitting) =>
             /\ StartedAutoSubmission
             /\ isSubmitting']_vars

\* A submission made through End Exam is grading, started at the very second
\* the minimum time of the exam was reached
C34_Witness ==
    /\ exam.hasMinimumTime
    /\ exam.minimumSeconds > 0
    /\ exam.seconds - state.timeLeft = exam.minimumSeconds
    /\ Len(calls) = 1
    /\ ~calls[1].details.autoSubmitted
    /\ isSubmitting

----------------------------------------------------------------------------

\* C35: in every written record, the sourceCode and status of every question
\* are those the session had when the submission was invoked, every code that
\* was sent to final grading is the stored sourceCode of its question, and a
\* question whose entry comes from a grading call had its code sent.
C35_RecordIsSnapshot ==
    \A w \in 1..Len(log.writes) :
        LET record == log.writes[w]
        IN  /\ \A k \in 1..Len(record.answers) :
                 LET a == record.answers[k]
                 IN  /\ a.sourceCode = SourceOf(record.snap, a.questionId)
                     /\ a.status = StatusOf(record.snap, a.questionId)
                     /\ (Graded(a) \/ "error" \in DOMAIN a) =>
                            \E e \in 1..Len(record.executed) :
                                record.executed[e].questionId = a.questionId
            /\ \A e \in 1..Len(record.executed) :
                 \E k \in 1..Len(record.answers) :
                     /\ record.answers[k].questionId = record.executed[e].questionId
                     /\ record.answers[k].sourceCode = record.executed[e].sourceCode

\* The answer of the first question was emptied while its grading was in
\* flight: the record holds the code that was graded
C35_Witness ==
    /\ Len(log.writes) = 1
    /\ log.writes[1].answers[1].sourceCode = "code"
    /\ log.writes[1].answers[1].status = "answered"
    /\ Len(log.writes[1].executed) = 1
    /\ state.answers[log.writes[1].answers[1].questionId] = ""

----------------------------------------------------------------------------

\* A Run of question q is waiting on executeCode
RunInFlight(q) == \E r \in runs : r.questionId = q

\* C36: isExecuting is true for a question exactly while a Run of it is
\* waiting on its execution request, so it is true when the request is issued
\* and false once the Run has ended, by a return or by a throw; and, the
\* awaited call settling, a flag that is true is eventually false.
C36_IsExecutingFollowsRun ==
    /\ [](\A q \in AllIds : (state.isExecuting[q] = "true") = RunInFlight(q))
    /\ \A q \in AllIds :
           (state.isExecuting[q] = "true") ~> (state.isExecuting[q] = "false")

\* A Run has thrown: nothing is running, no result was stored and the flag of
\* its question is false
C36_Witness ==
    /\ Did("SET_EXECUTING")
    /\ runs = {}
    /\ state.isExecuting[dispatched[1].target] = "false"
    /\ state.executionResults[dispatched[1].target] = Undefined

====
